---- MODULE Spec2Model ----
(***************************************************************************)
(* A model of modelCall.py: load_config, the two client constructors and   *)
(* the two invocation functions chat_openai and chat_deepseek.  One        *)
(* behaviour is one invocation: the caller's arguments, the configuration  *)
(* file and everything the remote client delivers are inputs.              *)
(*                                                                         *)
(* Python values.  An optional text is a record [tag, s]: tag "None" is    *)
(* Python's None, tag "Absent" is an attribute the object does not have,   *)
(* tag "str" is a str whose characters are the sequence s.                 *)
(***************************************************************************)
EXTENDS Naturals, Sequences, FiniteSets

VARIABLES
    file,               \* the configuration file on disk (input)
    args,               \* the arguments of the invocation (input)
    pc,                 \* position of the invocation in the function body
    cfg,                \* local cfg: the dict load_config returned
    clientBuilt,        \* whether OpenAI(api_key=..., base_url=...) was constructed
    api_params,         \* local api_params
    requests,           \* chat.completions.create calls the remote client received
    response,           \* non-streaming: the response object the client returned
    delivered,          \* streaming: the chunks the iterator has yielded so far
    exhausted,          \* streaming: the iterator raised StopIteration
    chunk_list,         \* local chunk_list
    full_content,       \* local full_content
    reasoning_content,  \* local reasoning_content
    console,            \* the print() calls made so far, in order
    result,             \* the value returned to the caller
    error               \* the exception that left the function, "" if none

vars == <<file, args, pc, cfg, clientBuilt, api_params, requests, response,
          delivered, exhausted, chunk_list, full_content, reasoning_content,
          console, result, error>>

\* The longest stream of chunks the remote client delivers in the model.
MaxChunks == 2

(***************************************************************************)
(* Python values                                                           *)
(***************************************************************************)
NoneV == [tag |-> "None", s |-> <<>>]

AbsentV == [tag |-> "Absent", s |-> <<>>]

Str(s) == [tag |-> "str", s |-> s]

\* bool(x) of an optional text: None and "" are falsy.
Truthy(x) == x.tag = "str" /\ x.s # <<>>

\* x is not None
IsNotNone(x) == x.tag # "None"

\* hasattr(obj, name) for an attribute held as an optional text
HasAttr(x) == x.tag # "Absent"

\* a + b on two str values
StrAdd(a, b) == Str(a.s \o b.s)

\* {"role": role, "content": content}
Message(role, content) == [role |-> role, content |-> content]

(***************************************************************************)
(* The inputs: configuration files, arguments, chunks, responses           *)
(***************************************************************************)
Services == {"openai", "deepseek"}

\* A section of config.toml: which keys it has.  base_url is optional and
\* only handed to the client constructor.
FullSection == [present |-> TRUE, api_key |-> Str(<<"k">>), model |-> Str(<<"cfg-model">>)]

NoModelSection == [present |-> TRUE, api_key |-> Str(<<"k">>), model |-> AbsentV]

NoKeySection == [present |-> TRUE, api_key |-> AbsentV, model |-> Str(<<"cfg-model">>)]

NoSection == [present |-> FALSE, api_key |-> AbsentV, model |-> AbsentV]

\* The configuration files of the model: exists says whether ./config.toml
\* is there, sections maps a service name to its section.
Files ==
    { [exists |-> FALSE, sections |-> [s \in Services |-> NoSection]] }
    \cup { [exists |-> TRUE, sections |-> [s \in Services |-> sec]] :
             sec \in {NoSection, NoKeySection, NoModelSection, FullSection} }
    \cup { [exists |-> TRUE,
            sections |-> [s \in Services |-> IF s = only THEN FullSection ELSE NoSection]] :
             only \in Services }

\* The default system prompts (the Chinese literals of the signatures).
OpenaiSystem == Str(<<"openai-system-prompt">>)

DeepseekSystem == Str(<<"deepseek-system-prompt">>)

UserContent == Str(<<"q">>)

\* A caller-supplied history (one assistant turn and one user turn).
History == << Message("assistant", Str(<<"h1">>)), Message("user", Str(<<"h2">>)) >>

\* The optional messages argument: None, or a list.
NoMessages == [given |-> FALSE, list |-> <<>>]

GivenMessages(l) == [given |-> TRUE, list |-> l]

\* **kwargs: which keys the caller passed, and their values.
Kwargs(hasMessages, messages, hasModel, model, hasTemperature) ==
    [hasMessages |-> hasMessages, messages |-> messages,
     hasModel |-> hasModel, model |-> model, hasTemperature |-> hasTemperature]

NoKwargs == Kwargs(FALSE, <<>>, FALSE, NoneV, FALSE)

\* chat_openai binds content, system, return_type and stream by name: model
\* and messages, if passed, land in **kwargs.
OpenaiKwargs ==
    { NoKwargs,
      Kwargs(FALSE, <<>>, FALSE, NoneV, TRUE),
      Kwargs(TRUE, History, FALSE, NoneV, FALSE),
      Kwargs(FALSE, <<>>, TRUE, Str(<<"kw-model">>), FALSE) }

\* chat_deepseek binds model and messages by name too: they cannot be in
\* **kwargs.
DeepseekKwargs == { NoKwargs, Kwargs(FALSE, <<>>, FALSE, NoneV, TRUE) }

ReturnTypes == {"json", "text", "both", "xml"}

OpenaiArgs ==
    { [fn |-> "chat_openai", content |-> UserContent, system |-> OpenaiSystem,
       return_type |-> rt, stream |-> st, model |-> NoneV,
       messages |-> NoMessages, kwargs |-> kw] :
         rt \in ReturnTypes, st \in BOOLEAN, kw \in OpenaiKwargs }

DeepseekArgs ==
    { [fn |-> "chat_deepseek", content |-> UserContent, system |-> DeepseekSystem,
       return_type |-> rt, stream |-> st, model |-> m,
       messages |-> ms, kwargs |-> kw] :
         rt \in ReturnTypes, st \in BOOLEAN,
         m \in {NoneV, Str(<<>>), Str(<<"arg-model">>)},
         ms \in {NoMessages, GivenMessages(<<>>), GivenMessages(History)},
         kw \in DeepseekKwargs }

\* chunk.choices[0].delta: None, or an object with a content attribute
\* (None or a str) and possibly a reasoning_content attribute.
NoDelta == [delta |-> FALSE, content |-> AbsentV, reasoning |-> AbsentV]

Chunks ==
    { NoDelta }
    \cup { [delta |-> TRUE, content |-> c, reasoning |-> r] :
             c \in {NoneV, Str(<<>>), Str(<<"a">>), Str(<<"b">>)},
             r \in {AbsentV, NoneV, Str(<<"r">>)} }

\* response.choices[0].message of a non-streaming response.
Responses ==
    { [content |-> c, reasoning |-> r] :
        c \in {Str(<<>>), Str(<<"a">>)},
        r \in {AbsentV, NoneV, Str(<<>>), Str(<<"r">>)} }

NoResponse == [content |-> AbsentV, reasoning |-> AbsentV]

(***************************************************************************)
(* Results and console output                                              *)
(***************************************************************************)
NoResult == [kind |-> "none", text |-> AbsentV, aux |-> AbsentV, list |-> <<>>, raw |-> NoResponse]

\* return <str or None>
TextResult(t) == [kind |-> "text", text |-> t, aux |-> AbsentV, list |-> <<>>, raw |-> NoResponse]

\* return a, b
PairResult(a, b) == [kind |-> "pair", text |-> a, aux |-> b, list |-> <<>>, raw |-> NoResponse]

\* return chunk_list
ListResult(l) == [kind |-> "list", text |-> AbsentV, aux |-> AbsentV, list |-> l, raw |-> NoResponse]

\* return response
RawResult(r) == [kind |-> "raw", text |-> AbsentV, aux |-> AbsentV, list |-> <<>>, raw |-> r]

\* print(chunk): the chunk's repr and the default end "\n".
PrintChunk(c) == [isObj |-> TRUE, obj |-> c, s |-> <<"\n">>]

\* print(text, end="", flush=True)
PrintText(t) == [isObj |-> FALSE, obj |-> NoDelta, s |-> t.s]

\* The f-string f"[推理] {text}".
ReasoningMarker == <<"[reasoning] ">>

FormatReasoning(t) == Str(ReasoningMarker \o t.s)

\* print()
PrintNewline == [isObj |-> FALSE, obj |-> NoDelta, s |-> <<"\n">>]

(***************************************************************************)
(* load_config and the construction of the request                         *)
(***************************************************************************)
\* dict.get(key): the value, or None when the key is missing.
DictGet(x) == IF HasAttr(x) THEN x ELSE NoneV

\* getattr(obj, name, default)
GetAttr(x, default) == IF HasAttr(x) THEN x ELSE default

NoCfg == [api_key |-> AbsentV, model |-> AbsentV]

\* load_config with the access key read by .get, as the optional keys are:
\* a section without api_key then loads, with api_key None.
load_config_key_by_get(f, service) ==
    IF ~f.exists
    THEN [error |-> "FileNotFoundError", value |-> NoCfg]
    ELSE IF ~f.sections[service].present
    THEN [error |-> "KeyError", value |-> NoCfg]
    ELSE [error |-> "",
          value |-> [api_key |-> DictGet(f.sections[service].api_key),
                     model |-> DictGet(f.sections[service].model)]]

\* load_config(service=service) on the file f: toml.load raises
\* FileNotFoundError when the file is missing, cfg[service] and
\* service_cfg["api_key"] raise KeyError, model is read with .get.
load_config(f, service) ==
    IF ~f.exists
    THEN [error |-> "FileNotFoundError", value |-> NoCfg]
    ELSE IF ~f.sections[service].present
    THEN [error |-> "KeyError", value |-> NoCfg]
    ELSE IF ~HasAttr(f.sections[service].api_key)
    THEN [error |-> "KeyError", value |-> NoCfg]
    ELSE [error |-> "",
          value |-> [api_key |-> f.sections[service].api_key,
                     model |-> DictGet(f.sections[service].model)]]

\* The section each function loads: chat_openai takes load_config's default
\* service, chat_deepseek passes service="deepseek".
ServiceOf(a) == IF a.fn = "chat_openai" THEN "openai" ELSE "deepseek"

\* The two-message list [system message, user message].
SystemUserMessages(a) ==
    << Message("system", a.system), Message("user", a.content) >>

\* chat_openai: msgs
openai_msgs(a) == SystemUserMessages(a)

\* The test "if not messages" in place of "if messages is None": an empty
\* history is replaced by the two synthesized messages.
deepseek_messages_if_not(a) ==
    IF ~a.messages.given \/ a.messages.list = <<>>
    THEN SystemUserMessages(a) ELSE a.messages.list

\* chat_deepseek: messages after "if messages is None"
deepseek_messages(a) ==
    IF ~a.messages.given THEN SystemUserMessages(a) ELSE a.messages.list

\* chat_deepseek: model or cfg["model"]
deepseek_model(a, c) == IF Truthy(a.model) THEN a.model ELSE c.model

\* {"model": ..., "messages": ..., "stream": ..., **kwargs}: a key of kwargs
\* replaces the key written before it.
DictWithKwargs(model, messages, stream, kw) ==
    [model |-> IF kw.hasModel THEN kw.model ELSE model,
     messages |-> IF kw.hasMessages THEN kw.messages ELSE messages,
     stream |-> stream,
     temperature |-> kw.hasTemperature]

openai_api_params(a, c) ==
    DictWithKwargs(c.model, openai_msgs(a), a.stream, a.kwargs)

deepseek_api_params(a, c) ==
    DictWithKwargs(deepseek_model(a, c), deepseek_messages(a), a.stream, a.kwargs)

NoParams == [model |-> AbsentV, messages |-> <<>>, stream |-> FALSE, temperature |-> FALSE]

(***************************************************************************)
(* The invocation                                                          *)
(***************************************************************************)
Init ==
    /\ file \in Files
    /\ args \in OpenaiArgs \cup DeepseekArgs
    /\ pc = "start"
    /\ cfg = NoCfg
    /\ clientBuilt = FALSE
    /\ api_params = NoParams
    /\ requests = <<>>
    /\ response = NoResponse
    /\ delivered = <<>>
    /\ exhausted = FALSE
    /\ chunk_list = <<>>
    /\ full_content = Str(<<>>)
    /\ reasoning_content = Str(<<>>)
    /\ console = <<>>
    /\ result = NoResult
    /\ error = ""

\* raise: the exception leaves the function, nothing is returned.
Raise(e) == pc' = "raised" /\ error' = e

\* cfg = load_config() / cfg = load_config(service="deepseek")
LoadConfig ==
    /\ pc = "start"
    /\ LET r == load_config(file, ServiceOf(args)) IN
         IF r.error # ""
         THEN Raise(r.error) /\ UNCHANGED cfg
         ELSE pc' = "loaded" /\ cfg' = r.value /\ UNCHANGED error
    /\ UNCHANGED <<file, args, clientBuilt, api_params, requests, response,
                   delivered, exhausted, chunk_list, full_content,
                   reasoning_content, console, result>>

\* client = create_openai_client(...) / create_deepseek_client(...)
CreateClient ==
    /\ pc = "loaded"
    /\ clientBuilt' = TRUE
    /\ pc' = "client"
    /\ UNCHANGED <<file, args, cfg, api_params, requests, response, delivered,
                   exhausted, chunk_list, full_content, reasoning_content,
                   console, result, error>>

\* The message list and api_params.
BuildParams ==
    /\ pc = "client"
    /\ api_params' = IF args.fn = "chat_openai"
                     THEN openai_api_params(args, cfg)
                     ELSE deepseek_api_params(args, cfg)
    /\ pc' = "params"
    /\ UNCHANGED <<file, args, cfg, clientBuilt, requests, response, delivered,
                   exhausted, chunk_list, full_content, reasoning_content,
                   console, result, error>>

\* client.chat.completions.create(**api_params) with stream true: the client
\* receives the request and returns the iterator.
DispatchStream ==
    /\ pc = "params"
    /\ args.stream
    /\ requests' = Append(requests, api_params)
    /\ pc' = "streaming"
    /\ UNCHANGED <<file, args, cfg, clientBuilt, api_params, response,
                   delivered, exhausted, chunk_list, full_content,
                   reasoning_content, console, result, error>>

\* client.chat.completions.create(**api_params) with stream false: the
\* client receives the request and returns a response.
DispatchNonStream ==
    /\ pc = "params"
    /\ ~args.stream
    /\ requests' = Append(requests, api_params)
    /\ \E r \in Responses : response' = r
    /\ pc' = "responded"
    /\ UNCHANGED <<file, args, cfg, clientBuilt, api_params, delivered,
                   exhausted, chunk_list, full_content, reasoning_content,
                   console, result, error>>

\* client.chat.completions.create raises (authentication, network, rate
\* limit): nothing catches it.
DispatchRaises ==
    /\ pc = "params"
    /\ requests' = Append(requests, api_params)
    /\ Raise("TransportError")
    /\ UNCHANGED <<file, args, cfg, clientBuilt, api_params, response,
                   delivered, exhausted, chunk_list, full_content,
                   reasoning_content, console, result>>

(***************************************************************************)
(* Streaming: the branch on return_type and the loops over the chunks      *)
(***************************************************************************)
\* chat_openai, stream true: json and text have a loop, anything else
\* raises ValueError after the request was made.
OpenaiStreamBranch ==
    /\ pc = "streaming"
    /\ args.fn = "chat_openai"
    /\ IF args.return_type = "json"
       THEN pc' = "loop_json" /\ UNCHANGED error
       ELSE IF args.return_type = "text"
       THEN pc' = "loop_text" /\ UNCHANGED error
       ELSE Raise("ValueError")
    /\ chunk_list' = <<>>
    /\ full_content' = Str(<<>>)
    /\ UNCHANGED <<file, args, cfg, clientBuilt, api_params, requests, response,
                   delivered, exhausted, reasoning_content, console, result>>

\* chat_deepseek, stream true: json has its loop, every other return_type
\* takes the else branch.
DeepseekStreamBranch ==
    /\ pc = "streaming"
    /\ args.fn = "chat_deepseek"
    /\ pc' = IF args.return_type = "json" THEN "loop_json" ELSE "loop_text"
    /\ chunk_list' = <<>>
    /\ full_content' = Str(<<>>)
    /\ reasoning_content' = Str(<<>>)
    /\ UNCHANGED <<file, args, cfg, clientBuilt, api_params, requests, response,
                   delivered, exhausted, console, result, error>>

\* The iterator yields a chunk only while the stream has chunks left.
CanYield == ~exhausted /\ Len(delivered) < MaxChunks

\* The test "if chunk.choices[0].delta.content" in place of "is not None":
\* a chunk whose content is the empty string is skipped.
openai_keeps_truthy(c) == Truthy(c.content)

\* chat_openai: chunk.choices[0].delta.content is not None
openai_keeps(c) == IsNotNone(c.content)

\* chat_deepseek, json: chunk.choices[0].delta is not None
deepseek_keeps(c) == c.delta

\* chat_deepseek: hasattr(delta, 'reasoning_content') and delta.reasoning_content
deepseek_is_reasoning(c) == HasAttr(c.reasoning) /\ Truthy(c.reasoning)

\* chat_deepseek: the elif of the loop, reached when the chunk is not a
\* reasoning chunk: delta.content
deepseek_is_content(c) == ~deepseek_is_reasoning(c) /\ Truthy(c.content)

\* One iteration of chat_openai's json loop.  Reading .content of a delta
\* that is None raises AttributeError.
OpenaiJsonChunk ==
    /\ pc = "loop_json"
    /\ args.fn = "chat_openai"
    /\ CanYield
    /\ \E c \in Chunks :
         /\ delivered' = Append(delivered, c)
         /\ IF ~c.delta
            THEN Raise("AttributeError") /\ UNCHANGED <<chunk_list, console>>
            ELSE /\ UNCHANGED <<pc, error>>
                 /\ IF openai_keeps(c)
                    THEN /\ chunk_list' = Append(chunk_list, c)
                         /\ console' = Append(console, PrintChunk(c))
                    ELSE UNCHANGED <<chunk_list, console>>
    /\ UNCHANGED <<file, args, cfg, clientBuilt, api_params, requests, response,
                   exhausted, full_content, reasoning_content, result>>

\* One iteration of chat_openai's text loop.
OpenaiTextChunk ==
    /\ pc = "loop_text"
    /\ args.fn = "chat_openai"
    /\ CanYield
    /\ \E c \in Chunks :
         /\ delivered' = Append(delivered, c)
         /\ IF ~c.delta
            THEN Raise("AttributeError") /\ UNCHANGED <<full_content, console>>
            ELSE /\ UNCHANGED <<pc, error>>
                 /\ IF openai_keeps(c)
                    THEN /\ full_content' = StrAdd(full_content, c.content)
                         /\ console' = Append(console, PrintText(c.content))
                    ELSE UNCHANGED <<full_content, console>>
    /\ UNCHANGED <<file, args, cfg, clientBuilt, api_params, requests, response,
                   exhausted, chunk_list, reasoning_content, result>>

\* One iteration of chat_deepseek's json loop.
DeepseekJsonChunk ==
    /\ pc = "loop_json"
    /\ args.fn = "chat_deepseek"
    /\ CanYield
    /\ \E c \in Chunks :
         /\ delivered' = Append(delivered, c)
         /\ IF deepseek_keeps(c)
            THEN /\ chunk_list' = Append(chunk_list, c)
                 /\ console' = Append(console, PrintChunk(c))
            ELSE UNCHANGED <<chunk_list, console>>
    /\ UNCHANGED <<file, args, pc, cfg, clientBuilt, api_params, requests,
                   response, exhausted, full_content, reasoning_content, result,
                   error>>

\* One iteration of chat_deepseek's text loop.  hasattr of a delta that is
\* None is False, and the elif then reads .content of None: AttributeError.
DeepseekTextChunk ==
    /\ pc = "loop_text"
    /\ args.fn = "chat_deepseek"
    /\ CanYield
    /\ \E c \in Chunks :
         /\ delivered' = Append(delivered, c)
         /\ IF ~c.delta
            THEN /\ Raise("AttributeError")
                 /\ UNCHANGED <<full_content, reasoning_content, console>>
            ELSE /\ UNCHANGED <<pc, error>>
                 /\ IF deepseek_is_reasoning(c)
                    THEN /\ reasoning_content' = StrAdd(reasoning_content, c.reasoning)
                         /\ console' = Append(console, PrintText(FormatReasoning(c.reasoning)))
                         /\ UNCHANGED full_content
                    ELSE IF deepseek_is_content(c)
                    THEN /\ full_content' = StrAdd(full_content, c.content)
                         /\ console' = Append(console, PrintText(c.content))
                         /\ UNCHANGED reasoning_content
                    ELSE UNCHANGED <<full_content, reasoning_content, console>>
    /\ UNCHANGED <<file, args, cfg, clientBuilt, api_params, requests, response,
                   exhausted, chunk_list, result>>

\* The iterator raises while the next chunk is pulled (a transport failure
\* in mid-stream): the exception leaves the loop and the function.
StreamRaises ==
    /\ pc \in {"loop_json", "loop_text"}
    /\ ~exhausted
    /\ Raise("TransportError")
    /\ UNCHANGED <<file, args, cfg, clientBuilt, api_params, requests, response,
                   delivered, exhausted, chunk_list, full_content,
                   reasoning_content, console, result>>

\* The iterator is exhausted: the for loop ends.
StreamEnds ==
    /\ pc \in {"loop_json", "loop_text"}
    /\ ~exhausted
    /\ exhausted' = TRUE
    /\ UNCHANGED <<file, args, pc, cfg, clientBuilt, api_params, requests,
                   response, delivered, chunk_list, full_content,
                   reasoning_content, console, result, error>>

\* After the json loop of either function: return chunk_list
JsonReturn ==
    /\ pc = "loop_json"
    /\ exhausted
    /\ result' = ListResult(chunk_list)
    /\ pc' = "returned"
    /\ UNCHANGED <<file, args, cfg, clientBuilt, api_params, requests, response,
                   delivered, exhausted, chunk_list, full_content,
                   reasoning_content, console, error>>

\* chat_openai after the text loop: print(); return full_content
OpenaiTextReturn ==
    /\ pc = "loop_text"
    /\ args.fn = "chat_openai"
    /\ exhausted
    /\ console' = Append(console, PrintNewline)
    /\ result' = TextResult(full_content)
    /\ pc' = "returned"
    /\ UNCHANGED <<file, args, cfg, clientBuilt, api_params, requests, response,
                   delivered, exhausted, chunk_list, full_content,
                   reasoning_content, error>>

\* chat_deepseek after the text loop: print(); the pair for "both", else
\* full_content
deepseek_stream_result(rt, full, reasoning) ==
    IF rt = "both" THEN PairResult(full, reasoning) ELSE TextResult(full)

DeepseekTextReturn ==
    /\ pc = "loop_text"
    /\ args.fn = "chat_deepseek"
    /\ exhausted
    /\ console' = Append(console, PrintNewline)
    /\ result' = deepseek_stream_result(args.return_type, full_content, reasoning_content)
    /\ pc' = "returned"
    /\ UNCHANGED <<file, args, cfg, clientBuilt, api_params, requests, response,
                   delivered, exhausted, chunk_list, full_content,
                   reasoning_content, error>>

(***************************************************************************)
(* Non-streaming: the reshaping of the response                            *)
(***************************************************************************)
\* chat_openai, stream false, after the request: the response for json, the
\* message content for text, ValueError for anything else.
OpenaiReshape ==
    /\ pc = "responded"
    /\ args.fn = "chat_openai"
    /\ IF args.return_type = "json"
       THEN result' = RawResult(response) /\ pc' = "returned" /\ UNCHANGED error
       ELSE IF args.return_type = "text"
       THEN result' = TextResult(response.content) /\ pc' = "returned" /\ UNCHANGED error
       ELSE Raise("ValueError") /\ UNCHANGED result
    /\ UNCHANGED <<file, args, cfg, clientBuilt, api_params, requests, response,
                   delivered, exhausted, chunk_list, full_content,
                   reasoning_content, console>>

\* chat_deepseek, stream false: the response for json, the pair for both,
\* the message content for anything else.
deepseek_reshape(rt, r) ==
    IF rt = "json" THEN RawResult(r)
    ELSE IF rt = "both" THEN PairResult(r.content, GetAttr(r.reasoning, Str(<<>>)))
    ELSE TextResult(r.content)

DeepseekReshape ==
    /\ pc = "responded"
    /\ args.fn = "chat_deepseek"
    /\ result' = deepseek_reshape(args.return_type, response)
    /\ pc' = "returned"
    /\ UNCHANGED <<file, args, cfg, clientBuilt, api_params, requests, response,
                   delivered, exhausted, chunk_list, full_content,
                   reasoning_content, console, error>>

Next ==
    \/ LoadConfig
    \/ CreateClient
    \/ BuildParams
    \/ DispatchStream
    \/ DispatchNonStream
    \/ DispatchRaises
    \/ OpenaiStreamBranch
    \/ DeepseekStreamBranch
    \/ OpenaiJsonChunk
    \/ OpenaiTextChunk
    \/ DeepseekJsonChunk
    \/ DeepseekTextChunk
    \/ StreamRaises
    \/ StreamEnds
    \/ JsonReturn
    \/ OpenaiTextReturn
    \/ DeepseekTextReturn
    \/ OpenaiReshape
    \/ DeepseekReshape

Spec == Init /\ [][Next]_vars

(***************************************************************************)
(* What the stream carried, computed from the chunks alone                 *)
(***************************************************************************)
\* The ordinary content a chunk carries: its text, or nothing.
ContentOf(c) == IF c.delta /\ c.content.tag = "str" THEN c.content.s ELSE <<>>

\* The auxiliary reasoning text a chunk carries, or nothing.
ReasoningOf(c) == IF c.delta /\ c.reasoning.tag = "str" THEN c.reasoning.s ELSE <<>>

RECURSIVE ConcatContent(_)
ConcatContent(cs) ==
    IF cs = <<>> THEN <<>> ELSE ContentOf(Head(cs)) \o ConcatContent(Tail(cs))

RECURSIVE ConcatReasoning(_)
ConcatReasoning(cs) ==
    IF cs = <<>> THEN <<>> ELSE ReasoningOf(Head(cs)) \o ConcatReasoning(Tail(cs))

\* Everything a chunk carries, as a console shows it: the reasoning text
\* behind its marker, and the ordinary content.
RECURSIVE ConcatMarked(_)
ConcatMarked(cs) ==
    IF cs = <<>> THEN <<>>
    ELSE (IF ReasoningOf(Head(cs)) # <<>>
          THEN ReasoningMarker \o ReasoningOf(Head(cs)) ELSE <<>>)
         \o ContentOf(Head(cs)) \o ConcatMarked(Tail(cs))

\* The characters written to the console so far.
RECURSIVE Written(_)
Written(ps) == IF ps = <<>> THEN <<>> ELSE Head(ps).s \o Written(Tail(ps))

HasContentAttr(c) == c.delta /\ c.content.tag # "None"

HasDelta(c) == c.delta

HasNonEmptyContent(c) == ContentOf(c) # <<>>

StreamingText ==
    /\ args.stream
    /\ \/ args.fn = "chat_openai" /\ args.return_type = "text"
       \/ args.fn = "chat_deepseek" /\ args.return_type \in {"text", "both"}

SupportedModes(fn) ==
    IF fn = "chat_openai" THEN {"json", "text"} ELSE {"json", "text", "both"}

\* The provider's section is missing from the file, or has no api_key.
SectionUnusable ==
    /\ file.exists
    /\ \/ ~file.sections[ServiceOf(args)].present
       \/ file.sections[ServiceOf(args)].api_key.tag = "Absent"

(***************************************************************************)
(* The claims                                                              *)
(***************************************************************************)
\* C1: in streaming text mode of either function the returned string is the
\* concatenation of the content of all delivered chunks, in arrival order.
C1_TextIsConcatenation ==
    (pc = "returned" /\ args.stream /\ args.return_type = "text")
        => result = TextResult(Str(ConcatContent(delivered)))

\* C2: in chat_deepseek streaming with return_type "both" the two
\* accumulators hold the ordinary content, respectively the auxiliary text,
\* of every chunk consumed so far, and the returned pair is (all ordinary
\* content, all auxiliary text), whatever each chunk carries.
C2_DualChannelPair ==
    (args.fn = "chat_deepseek" /\ args.stream /\ args.return_type = "both")
        => /\ full_content = Str(ConcatContent(delivered))
           /\ reasoning_content = Str(ConcatReasoning(delivered))
           /\ pc = "returned"
                => result = PairResult(Str(ConcatContent(delivered)),
                                       Str(ConcatReasoning(delivered)))

\* C3: a non-streaming chat_openai call with a return_type other than json
\* and text never returns, and when it has failed with ValueError the remote
\* client has received no request.
C3_NoRequestBeforeValueError ==
    (args.fn = "chat_openai" /\ ~args.stream /\ args.return_type \notin {"json", "text"})
        => /\ pc # "returned"
           /\ error = "ValueError" => requests = <<>>

\* C4 (as claimed): a request of chat_deepseek carries the supplied history
\* verbatim if one is supplied, else [system, user]; a request of
\* chat_openai always carries [system, user].
C4_OpenaiAlwaysSynthesizes ==
    \A i \in 1..Len(requests) :
        requests[i].messages =
            IF args.fn = "chat_deepseek" /\ args.messages.given
            THEN args.messages.list
            ELSE SystemUserMessages(args)

\* C4 (amended): as above for chat_deepseek; chat_openai sends [system,
\* user] unless the pass-through keywords hold a messages entry, which then
\* is what the request carries.  At most one request is made.
C4_PayloadHasOneSource ==
    /\ Len(requests) <= 1
    /\ \A i \in 1..Len(requests) :
        requests[i].messages =
            IF args.fn = "chat_deepseek"
            THEN (IF args.messages.given
                  THEN args.messages.list ELSE SystemUserMessages(args))
            ELSE (IF args.kwargs.hasMessages
                  THEN args.kwargs.messages ELSE SystemUserMessages(args))

\* C4 witness: chat_deepseek was given the empty history and its request,
\* carrying no message, has reached the client.
C4_Witness ==
    /\ args.fn = "chat_deepseek"
    /\ args.messages = GivenMessages(<<>>)
    /\ Len(requests) = 1
    /\ requests[1].messages = <<>>

\* C5: a chat_deepseek request carries the model argument whenever that
\* argument is anything but None.
C5_OverrideWins ==
    (args.fn = "chat_deepseek" /\ args.model.tag # "None")
        => \A i \in 1..Len(requests) : requests[i].model = args.model

\* C6: the client is constructed only after the configuration was loaded
\* and a request is made only after the client was constructed; when the
\* provider's section is missing or has no api_key the invocation ends with
\* the KeyError of load_config, no client and no request.
C6_ConfigFirst ==
    /\ clientBuilt => cfg.api_key.tag = "str"
    /\ requests # <<>> => clientBuilt
    /\ SectionUnusable
         => /\ ~clientBuilt
            /\ requests = <<>>
            /\ pc \in {"start", "raised"}
            /\ pc = "raised" => error = "KeyError" /\ result = NoResult

\* C6 witness: the section is there without an api_key and the invocation
\* has failed.
C6_Witness ==
    /\ file.sections[ServiceOf(args)].present
    /\ file.sections[ServiceOf(args)].api_key.tag = "Absent"
    /\ pc = "raised"
    /\ error = "KeyError"

\* C7: chat_deepseek with return_type "both" returns a pair of texts; not
\* streaming, the pair is (message content, reasoning text), the second
\* being "" whenever the response carries no reasoning text.
C7_BothIsPairOfTexts ==
    (args.fn = "chat_deepseek" /\ args.return_type = "both" /\ pc = "returned")
        => /\ result.kind = "pair"
           /\ result.text.tag = "str"
           /\ result.aux.tag = "str"
           /\ ~args.stream
                => /\ result.text = response.content
                   /\ result.aux = IF Truthy(response.reasoning)
                                   THEN response.reasoning ELSE Str(<<>>)

\* C8: a streaming call whose return_type the function does not support
\* never returns a result and consumes no chunk.
C8_UnsupportedModeFails ==
    (args.stream /\ args.return_type \notin SupportedModes(args.fn))
        => pc # "returned" /\ delivered = <<>>

\* C9 (as claimed): the list returned in streaming json mode is the
\* subsequence of the delivered chunks whose content is non-empty.
C9_ListIsNonEmptyContent ==
    (args.stream /\ args.return_type = "json" /\ pc = "returned")
        => result = ListResult(SelectSeq(delivered, HasNonEmptyContent))

\* C9 (amended): in streaming json mode chunk_list is, at every moment, the
\* subsequence of the delivered chunks that chat_openai finds with a content
\* that is not None (the empty string included), and that chat_deepseek
\* finds with a delta that is not None (whatever its content); each listed
\* chunk was echoed once, in order; the list is returned only once the
\* stream is exhausted.
C9_ListIsKeptChunks ==
    (args.stream /\ args.return_type = "json")
        => /\ chunk_list = IF args.fn = "chat_openai"
                           THEN SelectSeq(delivered, HasContentAttr)
                           ELSE SelectSeq(delivered, HasDelta)
           /\ console = [i \in 1..Len(chunk_list) |-> PrintChunk(chunk_list[i])]
           /\ result # NoResult => pc = "returned"
           /\ pc = "returned" => exhausted /\ result = ListResult(chunk_list)

\* C9 witness: chat_openai has returned a list that holds a chunk whose
\* content is the empty string.
C9_Witness ==
    /\ args.fn = "chat_openai"
    /\ args.stream
    /\ args.return_type = "json"
    /\ pc = "returned"
    /\ \E i \in 1..Len(result.list) : result.list[i].content = Str(<<>>)

\* C10: in streaming text mode the console shows, at every moment, what the
\* chunks consumed so far carried, in arrival order, followed by the one
\* newline exactly when the function has returned; an exception leaves no
\* result.
C10_EchoFollowsChunks ==
    StreamingText
        => /\ Written(console) =
                (IF args.fn = "chat_openai"
                 THEN ConcatContent(delivered) ELSE ConcatMarked(delivered))
                \o (IF pc = "returned" THEN <<"\n">> ELSE <<>>)
           /\ pc = "returned" => exhausted
           /\ pc = "raised" => result = NoResult

====
